---- MODULE Spec2Model ----
(***************************************************************************)
(* Model of api-client/examples/benchmark.rs: the concurrent order         *)
(* benchmark.  main spawns num_market + num_limit tasks on a JoinSet, each *)
(* task runs the order pipeline (client, nonce, payload, signing, POST,    *)
(* response classification), main drains the JoinSet into a                *)
(* BenchmarkResult, computes the totals and prints the report.             *)
(*                                                                         *)
(* Time is the integer `now`; every Instant::now() / elapsed() of the      *)
(* source reads it.  Time passes (Tick) only while a task is suspended in  *)
(* an await or is inside the synchronous sign_transaction call; the other  *)
(* synchronous segments are instantaneous.  #[tokio::main] is the          *)
(* multi-thread runtime, so up to Workers tasks are inside                 *)
(* sign_transaction at the same instant.                                   *)
(***************************************************************************)
EXTENDS Integers, Sequences, FiniteSets

\* ---------------------------------------------------------------- bounds
MaxMarket == 1     \* num_market is any of 0..MaxMarket
MaxTime == 1       \* the clock runs 0..MaxTime
Workers == 2       \* worker threads of the runtime (one per core)

\* ------------------------------------------------------ program constants
MarketBase == 1000000
LimitBase == 2000000
ErrorsShown == 10
HttpOk == 200
NoCode == -1

VARIABLES now, main_pc, num_market, num_limit, spawned, start_time,
          tasks, results, signing_times, report

vars == <<now, main_pc, num_market, num_limit, spawned, start_time,
          tasks, results, signing_times, report>>

\* num_limit is 0 or 1.
LimitCounts == {0, 1}
\* The units of a run are numbered in spawn order: the market loop's first.
Units == 1..(MaxMarket + 1)
\* The units whose tasks the state holds.
UnitIds == DOMAIN tasks
Nonces == {7}

\* ------------------------------------------------------------- Option<T>
None == <<>>
Some(x) == <<x>>
IsSome(o) == Len(o) = 1
Unwrap(o) == o[1]

\* ----------------------------------------------------- serde_json::Value
\* A Value is null, an integer, a string or something else (float, array...).
Null == [t |-> "null", n |-> 0, s |-> ""]
JInt(k) == [t |-> "int", n |-> k, s |-> ""]
JStr(x) == [t |-> "str", n |-> 0, s |-> x]

\* Value::as_i64: Some only for an integer.
as_i64(v) == IF v.t = "int" THEN Some(v.n) ELSE None
\* Value::as_str: Some only for a string.
as_str(v) == IF v.t = "str" THEN Some(v.s) ELSE None
\* Option::unwrap_or
unwrap_or(o, d) == IF IsSome(o) THEN Unwrap(o) ELSE d

\* A response text: a well-formed JSON object or not, with the values of its
\* "code" and "message" members (Null when the member is missing).
Text(wf, c, m) == [wellformed |-> wf, code |-> c, message |-> m]
NoBody == Text(FALSE, Null, Null)
\* The response texts the venue sends in a run.
Bodies ==
    { Text(FALSE, Null, Null),                         \* truncated / not JSON
      Text(TRUE, JInt(HttpOk), Null),                  \* {"code":200}
      Text(TRUE, JInt(400), JStr("invalid nonce")) }   \* {"code":400,"message":"invalid nonce"}
\* Every response text: whether it parses, and what "code" and "message"
\* are: missing, an integer, a string.
Values == {Null, JInt(HttpOk), JInt(400), JInt(NoCode), JStr("200"), JStr(""),
           JStr("invalid nonce")}
Texts == {Text(wf, c, m) : wf \in BOOLEAN, c \in Values, m \in Values}

\* serde_json::from_str(&text).unwrap_or(json!({})): a text that does not
\* parse becomes the empty object, whose members all read as Null.
from_str(text) ==
    IF text.wellformed THEN [code |-> text.code, message |-> text.message]
    ELSE [code |-> Null, message |-> Null]


\* ------------------------------------------------------------ OrderResult
\* What join_next yields for one task: Ok(Ok((sign, api, success, error))),
\* Ok(Err(e)) or Err(JoinError).  "none" while the task has not finished.
NoResult == [tag |-> "none", sign |-> 0, api |-> 0, success |-> FALSE, error |-> None]
OkOutcome(sign_time, api_time, success, error) ==
    [tag |-> "Ok", sign |-> sign_time, api |-> api_time, success |-> success, error |-> error]
OrderErr(e) == [tag |-> "Err", sign |-> 0, api |-> 0, success |-> FALSE, error |-> Some(e)]
JoinError == [tag |-> "JoinErr", sign |-> 0, api |-> 0, success |-> FALSE, error |-> Some("panicked")]

\* ------------------------------------------------- the order pipeline
Kind(u) == IF u <= num_market THEN "Market" ELSE "Limit"
\* The loop variable i of the spawning loop of unit u.
LoopIndex(u) == IF u <= num_market THEN u - 1 ELSE u - 1 - num_market

\* MarketTxInfo assembled before the nonce is known: "Nonce": 0.
MarketTxInfo_zero_nonce(i, nonce) ==
    [MarketIndex |-> 0, ClientOrderIndex |-> MarketBase + i, BaseAmount |-> 1000,
     IsAsk |-> IF i % 2 = 0 THEN 1 ELSE 0, Type |-> 1, TimeInForce |-> 0,
     ReduceOnly |-> 0, TriggerPrice |-> 0, OrderExpiry |-> 0,
     Nonce |-> 0, Sig |-> ""]
\* json!({...}) of the market loop.
MarketTxInfo(i, nonce) ==
    [MarketIndex |-> 0, ClientOrderIndex |-> MarketBase + i, BaseAmount |-> 1000,
     IsAsk |-> IF i % 2 = 0 THEN 1 ELSE 0, Type |-> 1, TimeInForce |-> 0,
     ReduceOnly |-> 0, TriggerPrice |-> 0, OrderExpiry |-> 0,
     Nonce |-> nonce, Sig |-> ""]
\* LimitTxInfo left as the market payload it was copied from, but for the
\* base.
LimitTxInfo_market_fields(i, nonce) ==
    [MarketIndex |-> 0, ClientOrderIndex |-> LimitBase + i, BaseAmount |-> 1000,
     IsAsk |-> IF i % 2 = 0 THEN 1 ELSE 0, Type |-> 1, TimeInForce |-> 0,
     ReduceOnly |-> 0, TriggerPrice |-> 0, OrderExpiry |-> 0,
     Nonce |-> nonce, Sig |-> ""]
\* LimitTxInfo with the base of the market loop.
LimitTxInfo_market_base(i, nonce) ==
    [MarketIndex |-> 0, ClientOrderIndex |-> MarketBase + i, BaseAmount |-> 1000,
     IsAsk |-> IF i % 2 = 0 THEN 1 ELSE 0, Type |-> 0, TimeInForce |-> 1,
     ReduceOnly |-> 0, TriggerPrice |-> 0, OrderExpiry |-> 0,
     Nonce |-> nonce, Sig |-> ""]
\* json!({...}) of the limit loop.
LimitTxInfo(i, nonce) ==
    [MarketIndex |-> 0, ClientOrderIndex |-> LimitBase + i, BaseAmount |-> 1000,
     IsAsk |-> IF i % 2 = 0 THEN 1 ELSE 0, Type |-> 0, TimeInForce |-> 1,
     ReduceOnly |-> 0, TriggerPrice |-> 0, OrderExpiry |-> 0,
     Nonce |-> nonce, Sig |-> ""]
TxInfo(u, nonce) ==
    IF Kind(u) = "Market" THEN MarketTxInfo(LoopIndex(u), nonce)
    ELSE LimitTxInfo(LoopIndex(u), nonce)

\* The early exits of the pipeline.
ClientCreationError == OkOutcome(0, 0, FALSE, Some("Client creation error: e"))
NonceErrorOutcome == OkOutcome(0, 0, FALSE, Some("Nonce error: e"))
\* SigningErrorOutcome with no api time, as in the other early exits.
SigningErrorOutcome_zero(nonce_time) == OkOutcome(0, 0, FALSE, Some("Signing error: e"))
SigningErrorOutcome(nonce_time) == OkOutcome(0, nonce_time, FALSE, Some("Signing error: e"))
\* TransportErrorOutcome that propagates the reqwest error (`?`): the task
\* returns Err.
TransportErrorOutcome_err(signing_time, api_time) == OrderErr("error sending request")
\* send() failed: no response at all.
TransportErrorOutcome(signing_time, api_time) ==
    OkOutcome(signing_time, api_time, FALSE, Some("error sending request"))

\* ResponseCode with the default taken for a success: unwrap_or(200).
ResponseCode_default_ok(response_json) == unwrap_or(as_i64(response_json.code), HttpOk)
\* response_json["code"].as_i64().unwrap_or(-1)
ResponseCode(response_json) == unwrap_or(as_i64(response_json.code), NoCode)
\* ResponseMessage with unwrap_or_default(): no "Unknown error".
ResponseMessage_default(response_json) == unwrap_or(as_str(response_json.message), "")
\* response_json["message"].as_str().unwrap_or("Unknown error")
ResponseMessage(response_json) == unwrap_or(as_str(response_json.message), "Unknown error")

\* Response classification: the Ok(resp) arm of `match response`.
Classify(signing_time, api_time, text) ==
    LET response_json == from_str(text)
        code == ResponseCode(response_json)
    IN  IF code = HttpOk
        THEN OkOutcome(signing_time, api_time, TRUE, None)
        ELSE OkOutcome(signing_time, api_time, FALSE, Some(ResponseMessage(response_json)))

\* ------------------------------------------------------------ the tasks
\* A local that is not read again is reset to its initial value; nonce is
\* kept as long as the payload built from it.
\* pc: unspawned, ready (spawned, not polled yet), nonce_wait (in
\* get_nonce().await), signing (inside sign_transaction), submit_wait (in
\* send().await), text_wait (in resp.text().await), done (returned),
\* panicked, and joined once join_next has yielded it.
NoTask ==
    [pc |-> "unspawned", nonce_start |-> 0, nonce_time |-> 0, nonce |-> 0, sign_start |-> 0,
     signing_time |-> 0, api_start |-> 0, api_time |-> 0,
     tx_info |-> None, text |-> NoBody, result |-> NoResult]

\* The task returns `r`: its locals are dropped.
Finished(r) == [NoTask EXCEPT !.pc = "done", !.result = r]
\* The task panics: the runtime turns it into a JoinError.
Panicked == [NoTask EXCEPT !.pc = "panicked", !.result = JoinError]

\* join_next has yielded the task's result `r`, which the loop body
\* consumes: only which arm it took stays known.
Taken(r) == [NoTask EXCEPT !.pc = "joined", !.result = [NoResult EXCEPT !.tag = r.tag]]

Signing == {u \in UnitIds : tasks[u].pc = "signing"}
Completed == {u \in UnitIds : tasks[u].pc \in {"done", "panicked"}}
Joined == {u \in UnitIds : tasks[u].pc = "joined"}

\* ------------------------------------------------------- the aggregator
\* BenchmarkResult as constructed before the drain loop.
EmptyResults ==
    [total_time |-> 0, signing_time |-> 0, api_time |-> 0,
     success_count |-> 0, error_count |-> 0, errors |-> <<>>]

\* FoldOutcome with the error count outside the else: a success is
\* counted as an error too.
FoldOutcome_both_counted(r, o) ==
    LET timed == [r EXCEPT !.signing_time = @ + o.sign, !.api_time = @ + o.api,
                           !.error_count = @ + 1]
    IN  IF o.success
        THEN [timed EXCEPT !.success_count = @ + 1]
        ELSE [timed EXCEPT !.errors = IF IsSome(o.error) THEN Append(@, Unwrap(o.error)) ELSE @]
\* FoldOutcome with the signing time accumulated for successes only.
FoldOutcome_success_time(r, o) ==
    IF o.success
    THEN [r EXCEPT !.signing_time = @ + o.sign, !.api_time = @ + o.api,
                   !.success_count = @ + 1]
    ELSE [r EXCEPT !.api_time = @ + o.api, !.error_count = @ + 1,
                   !.errors = IF IsSome(o.error) THEN Append(@, Unwrap(o.error)) ELSE @]
\* The Ok(Ok((sign_time, api_time, success, error))) arm, on `results`.
FoldOutcome(r, o) ==
    LET timed == [r EXCEPT !.signing_time = @ + o.sign, !.api_time = @ + o.api]
    IN  IF o.success
        THEN [timed EXCEPT !.success_count = @ + 1]
        ELSE [timed EXCEPT !.error_count = @ + 1,
                           !.errors = IF IsSome(o.error) THEN Append(@, Unwrap(o.error)) ELSE @]
\* The Ok(Err(e)) arm.
FoldOrderErr(r, o) ==
    [r EXCEPT !.error_count = @ + 1, !.errors = Append(@, Unwrap(o.error))]
\* FoldJoinError that counts the fault and keeps no message.
FoldJoinError_silent(r, o) == [r EXCEPT !.error_count = @ + 1]
\* The Err(e) arm: the task did not return (JoinError).
FoldJoinError(r, o) ==
    [r EXCEPT !.error_count = @ + 1,
              !.errors = Append(@, "Task join error: " \o Unwrap(o.error))]

\* One iteration of the drain loop on `results`.
Fold(r, o) ==
    CASE o.tag = "Ok" -> FoldOutcome(r, o)
      [] o.tag = "Err" -> FoldOrderErr(r, o)
      [] OTHER -> FoldJoinError(r, o)
\* PushSigning for successes only.
PushSigning_success_only(st, o) == IF o.tag = "Ok" /\ o.success THEN Append(st, o.sign) ELSE st
\* One iteration of the drain loop on `signing_times`: only the Ok(Ok(..))
\* arm pushes.
PushSigning(st, o) == IF o.tag = "Ok" THEN Append(st, o.sign) ELSE st

\* ------------------------------------------------------ the statistics
RECURSIVE SumSeq(_)
\* signing_times.iter().sum()
SumSeq(s) ==
    IF s = <<>> THEN 0
    ELSE IF Len(s) = 1 THEN s[1]
    ELSE LET half == Len(s) \div 2
         IN  SumSeq(SubSeq(s, 1, half)) + SumSeq(SubSeq(s, half + 1, Len(s)))

\* Duration - Duration: panics ("overflow when subtracting durations")
\* when the result would be negative; None stands for the panic.
DurationSub(a, b) == IF a >= b THEN Some(a - b) ELSE None

\* The merge of two ascending runs, the elements of `a` before the equal
\* elements of `b`: of the first k elements of the merge, FromA(k) are
\* from `a`, and the k-th is the greater of the last taken of each run.
Merge(a, b) ==
    LET p == Len(a)
        q == Len(b)
        FromA(k) == CHOOSE i \in 0..p :
                      LET j == k - i
                      IN  /\ j \in 0..q
                          /\ i = 0 \/ j = q \/ a[i] <= b[j + 1]
                          /\ j = 0 \/ i = p \/ b[j] < a[i + 1]
        merged == [k \in 1..(p + q) |->
                     LET i == FromA(k)
                         j == k - i
                     IN  IF j = 0 THEN a[i]
                         ELSE IF i = 0 THEN b[j]
                         ELSE IF a[i] <= b[j] THEN b[j] ELSE a[i]]
    IN  SubSeq(merged, 1, p + q)
\* sort that leaves the sequence as it arrived.
sort_unsorted(s) == s
RECURSIVE sort(_)
\* signing_times.sort(): ascending (a stable merge sort).
sort(s) ==
    IF Len(s) <= 1 THEN s
    ELSE LET half == Len(s) \div 2
         IN  Merge(sort(SubSeq(s, 1, half)), sort(SubSeq(s, half + 1, Len(s))))

\* The f64 literals 0.95 and 0.99 are not 95/100 and 99/100 but the nearest
\* doubles, significand * 2^-53 with the 53-bit significands
\* 0x1E666666666666 and 0x1FAE147AE147AE, here as three 24-bit limbs, the
\* lowest first.
Limb == 2^24
F64Significand(pct) ==
    CASE pct = 95 -> <<6710886, 6710886, 30>>
      [] pct = 99 -> <<14763950, 11408506, 31>>
RECURSIVE BitLen(_)
BitLen(x) == IF x = 0 THEN 0 ELSE 1 + BitLen(x \div 2)

\* PercentileIndex as the rank among len - 1 intervals.
PercentileIndex_rank(len, pct) == ((len - 1) * pct) \div 100
\* (len as f64 * 0.95) as usize, and the same with 0.99.  len as f64 is
\* exact; the product len * significand is rounded to 53 significant bits,
\* ties to even, and `as usize` truncates it.  With int the integer part of
\* the exact product (BitLen(int) bits) and the rest its fraction in units
\* of 2^-53, the rounding drops the low BitLen(int) bits, so it reaches
\* int + 1 exactly when the fraction is within 2^(BitLen(int) - 1) units
\* of 1.
PercentileIndex(len, pct) ==
    LET m == F64Significand(pct)
        x0 == len * m[1]
        x1 == len * m[2] + x0 \div Limb
        p0 == x0 % Limb
        p1 == x1 % Limb
        p2 == len * m[3] + x1 \div Limb
        int == p2 \div 32
        rounds_up == /\ int > 0
                     /\ p2 % 32 = 31
                     /\ p1 = Limb - 1
                     /\ Limb - p0 <= 2^(BitLen(int) - 1)
    IN  IF rounds_up THEN int + 1 ELSE int

\* The five statistics of the sorted signing_times (0-based indices of the
\* source are 1-based here).
Statistics(sorted) ==
    LET n == Len(sorted)
    IN  [min |-> sorted[1], max |-> sorted[n], median |-> sorted[n \div 2 + 1],
         p95 |-> sorted[PercentileIndex(n, 95) + 1],
         p99 |-> sorted[PercentileIndex(n, 99) + 1]]
NoStatistics == [min |-> -1, max |-> -1, median |-> -1, p95 |-> -1, p99 |-> -1]

\* Take that does not stop at k.
Take_all(s, k) == s
\* errors.iter().take(10)
Take(s, k) == SubSeq(s, 1, IF Len(s) < k THEN Len(s) ELSE k)

\* What the report prints: the counts, the statistics when there is a
\* sample, the errors shown and the "... and N more errors" line.
Render(r, st) ==
    [printed |-> TRUE,
     success |-> r.success_count, errors |-> r.error_count,
     stats |-> IF st # <<>> THEN Statistics(sort(st)) ELSE NoStatistics,
     shown |-> Take(r.errors, ErrorsShown),
     more |-> IF Len(r.errors) > ErrorsShown THEN Some(Len(r.errors) - ErrorsShown) ELSE None]
NoReport ==
    [printed |-> FALSE, success |-> 0, errors |-> 0, stats |-> NoStatistics,
     shown |-> <<>>, more |-> None]

\* --------------------------------------------------------------- Init
Init ==
    /\ now = 0
    /\ main_pc = "startup"
    /\ num_market \in 0..MaxMarket
    /\ num_limit \in LimitCounts
    /\ spawned = 0
    /\ start_time = 0
    /\ tasks = [u \in Units |-> NoTask]
    /\ results = EmptyResults
    /\ signing_times = <<>>
    /\ report = NoReport

\* ------------------------------------------------------------- the clock
\* Time passes while the run is between start_time and total_time.
Tick ==
    /\ main_pc \in {"spawn", "drain"}
    /\ now < MaxTime
    /\ now' = now + 1
    /\ UNCHANGED <<main_pc, num_market, num_limit, spawned, start_time,
                   tasks, results, signing_times, report>>

\* ------------------------------------------------------------- main
\* Reading the configuration: a missing or unparseable ACCOUNT_INDEX,
\* API_KEY_INDEX or API_PRIVATE_KEY returns the error from main.
Startup(valid) ==
    /\ main_pc = "startup"
    /\ IF valid
       THEN /\ main_pc' = "spawn"
            /\ start_time' = now
       ELSE /\ main_pc' = "exit_err"
            /\ UNCHANGED start_time
    /\ UNCHANGED <<now, num_market, num_limit, spawned, tasks, results,
                   signing_times, report>>

\* tasks.spawn(..) of the market loop.
SpawnMarket ==
    /\ main_pc = "spawn"
    /\ spawned < num_market
    /\ tasks' = [tasks EXCEPT ![spawned + 1].pc = "ready"]
    /\ spawned' = spawned + 1
    /\ UNCHANGED <<now, main_pc, num_market, num_limit, start_time, results,
                   signing_times, report>>

\* tasks.spawn(..) of the limit loop, which follows the market loop.
SpawnLimit ==
    /\ main_pc = "spawn"
    /\ spawned >= num_market
    /\ spawned < num_market + num_limit
    /\ tasks' = [tasks EXCEPT ![spawned + 1].pc = "ready"]
    /\ spawned' = spawned + 1
    /\ UNCHANGED <<now, main_pc, num_market, num_limit, start_time, results,
                   signing_times, report>>

\* Both loops are over: results and signing_times are created.
BeginDrain ==
    /\ main_pc = "spawn"
    /\ spawned = num_market + num_limit
    /\ main_pc' = "drain"
    /\ results' = EmptyResults
    /\ signing_times' = <<>>
    /\ UNCHANGED <<now, num_market, num_limit, spawned, start_time, tasks, report>>

\* tasks.join_next().await yields a finished task: one loop iteration.
DrainJoin(u) ==
    /\ main_pc = "drain"
    /\ u \in Completed
    /\ results' = Fold(results, tasks[u].result)
    /\ signing_times' = PushSigning(signing_times, tasks[u].result)
    /\ tasks' = [tasks EXCEPT ![u] = Taken(tasks[u].result)]
    /\ UNCHANGED <<now, main_pc, num_market, num_limit, spawned, start_time, report>>

\* results after "Calculate timing statistics": signing_time is recomputed
\* from signing_times and api_time is total_time - total_signing; None when
\* that subtraction panics.
Totals(r, st) ==
    IF st # <<>>
    THEN LET total_signing == SumSeq(st)
             api == DurationSub(r.total_time, total_signing)
         IN  IF IsSome(api)
             THEN Some([r EXCEPT !.signing_time = total_signing, !.api_time = Unwrap(api)])
             ELSE None
    ELSE Some(r)

\* JoinSetEmpty of a join that does not wait (try_join_next): None as soon
\* as no finished task is at hand.
JoinSetEmpty_no_wait == Completed = {}
\* join_next() yields None: every spawned task has been yielded.
JoinSetEmpty == \A u \in UnitIds : tasks[u].pc \in {"unspawned", "joined"}

\* join_next() yields None (the JoinSet is empty): the loop ends,
\* total_time is taken, the totals are computed and the report is printed.
\* A panic of the subtraction ends main before anything is printed.
Finish ==
    /\ main_pc = "drain"
    /\ JoinSetEmpty
    /\ LET timed == [results EXCEPT !.total_time = now - start_time]
           totals == Totals(timed, signing_times)
       IN  IF IsSome(totals)
           THEN /\ results' = Unwrap(totals)
                /\ report' = Render(Unwrap(totals), signing_times)
                /\ signing_times' = sort(signing_times)
                /\ main_pc' = "done"
           ELSE /\ results' = [timed EXCEPT !.signing_time = SumSeq(signing_times)]
                /\ main_pc' = "panicked"
                /\ UNCHANGED <<signing_times, report>>
    /\ UNCHANGED <<now, num_market, num_limit, spawned, start_time, tasks>>

\* ------------------------------------------------------- the spawned tasks
\* Each spawned future owns its locals (async move): a step of task u
\* replaces task u's record and no other.
Step(u, t) == [tasks EXCEPT ![u] = t]
\* Task u returns Ok(outcome).
Return(u, outcome) == Step(u, Finished(outcome))
\* Fault that takes the other running tasks down with it.
Fault_abort_all(u) ==
    [v \in UnitIds |->
        IF v = u \/ tasks[v].pc \in {"ready", "nonce_wait", "signing", "submit_wait", "text_wait"}
        THEN Panicked ELSE tasks[v]]
\* Task u panics: tokio catches the panic and completes the task with a
\* JoinError; the other tasks of the JoinSet go on.
Fault(u) == Step(u, Panicked)

\* First poll: LighterClient::new, then nonce_start and get_nonce().await.
UnitStart(u, client_ok) ==
    /\ tasks[u].pc = "ready"
    /\ tasks' = IF client_ok
                THEN Step(u, [tasks[u] EXCEPT !.pc = "nonce_wait", !.nonce_start = now])
                ELSE Return(u, ClientCreationError)
    /\ UNCHANGED <<now, main_pc, num_market, num_limit, spawned, start_time,
                   results, signing_times, report>>

\* get_nonce() completes with `nonce` (None: Err).  On Ok: nonce_time, the
\* expiry (SystemTime .. unwrap(), which panics on a clock before the
\* epoch: clock_fault), tx_info, sign_start, and the task is inside
\* sign_transaction, which needs a worker thread of its own.
NonceReturn(u, nonce, clock_fault) ==
    /\ tasks[u].pc = "nonce_wait"
    /\ IF ~IsSome(nonce)
       THEN tasks' = Return(u, NonceErrorOutcome)
       ELSE IF clock_fault
       THEN tasks' = Fault(u)
       ELSE /\ Cardinality(Signing) < Workers
            /\ tasks' = Step(u, [tasks[u] EXCEPT
                                   !.pc = "signing",
                                   !.nonce_time = now - tasks[u].nonce_start,
                                   !.nonce_start = 0,
                                   !.nonce = Unwrap(nonce),
                                   !.tx_info = Some(TxInfo(u, Unwrap(nonce))),
                                   !.sign_start = now])
    /\ UNCHANGED <<now, main_pc, num_market, num_limit, spawned, start_time,
                   results, signing_times, report>>

\* sign_transaction returns.  On Ok: signing_time, the signature is put in
\* final_tx_info, api_start, Client::new() (which panics when the TLS
\* backend cannot be initialised: tls_fault) and send().await.
SignReturn(u, sign_ok, tls_fault) ==
    /\ tasks[u].pc = "signing"
    /\ tasks' =
         IF ~sign_ok THEN Return(u, SigningErrorOutcome(tasks[u].nonce_time))
         ELSE IF tls_fault THEN Fault(u)
         ELSE Step(u, [tasks[u] EXCEPT
                         !.pc = "submit_wait",
                         !.signing_time = now - tasks[u].sign_start,
                         !.sign_start = 0,
                         !.tx_info = Some([Unwrap(@) EXCEPT !.Sig = "base64"]),
                         !.api_start = now])
    /\ UNCHANGED <<now, main_pc, num_market, num_limit, spawned, start_time,
                   results, signing_times, report>>

\* ApiTime without the nonce round trip: the submission alone.
ApiTime_no_nonce(api_start, nonce_time) == now - api_start
\* ApiTime measured from the start of the task (order_start): the nonce
\* round trip and the signing are inside it, and nonce_time is added again.
ApiTime_order_start(api_start, nonce_time) == (now - start_time) + nonce_time
\* let api_time = api_start.elapsed() + nonce_time
ApiTime(api_start, nonce_time) == (now - api_start) + nonce_time

\* send() completes with `response` (None: Err, no response at all;
\* Some(text): a response whose body will read as text).  api_time is
\* taken; on Ok the task awaits resp.text().
SubmitReturn(u, response) ==
    /\ tasks[u].pc = "submit_wait"
    /\ LET api_time == ApiTime(tasks[u].api_start, tasks[u].nonce_time)
       IN  tasks' =
             IF IsSome(response)
             THEN Step(u, [tasks[u] EXCEPT !.pc = "text_wait", !.api_time = api_time,
                                           !.api_start = 0, !.nonce_time = 0,
                                           !.nonce = 0, !.tx_info = None,
                                           !.text = Unwrap(response)])
             ELSE Return(u, TransportErrorOutcome(tasks[u].signing_time, api_time))
    /\ UNCHANGED <<now, main_pc, num_market, num_limit, spawned, start_time,
                   results, signing_times, report>>

\* resp.text() completes: the response is classified and the task returns.
TextReturn(u) ==
    /\ tasks[u].pc = "text_wait"
    /\ tasks' = Return(u, Classify(tasks[u].signing_time, tasks[u].api_time, tasks[u].text))
    /\ UNCHANGED <<now, main_pc, num_market, num_limit, spawned, start_time,
                   results, signing_times, report>>

\* ---------------------------------------------------------------- Next
Next ==
    \/ Tick
    \/ \E valid \in BOOLEAN : Startup(valid)
    \/ SpawnMarket
    \/ SpawnLimit
    \/ BeginDrain
    \/ \E u \in UnitIds : DrainJoin(u)
    \/ Finish
    \/ \E u \in UnitIds, client_ok \in BOOLEAN : UnitStart(u, client_ok)
    \/ \E u \in UnitIds, nonce \in {None} \cup {Some(n) : n \in Nonces},
          clock_fault \in BOOLEAN : NonceReturn(u, nonce, clock_fault)
    \/ \E u \in UnitIds, sign_ok \in BOOLEAN, tls_fault \in BOOLEAN :
          SignReturn(u, sign_ok, tls_fault)
    \/ \E u \in UnitIds, response \in {None} \cup {Some(b) : b \in Bodies} :
          SubmitReturn(u, response)
    \/ \E u \in UnitIds : TextReturn(u)

Spec == Init /\ [][Next]_vars

\* One order, every response text: the pipeline of a single unit (a market
\* order or a limit order) with the venue answering any text of Texts.
PipelineInit == Init /\ num_market + num_limit = 1

PipelineNext ==
    \/ Tick
    \/ \E valid \in BOOLEAN : Startup(valid)
    \/ SpawnMarket
    \/ SpawnLimit
    \/ BeginDrain
    \/ \E u \in UnitIds : DrainJoin(u)
    \/ Finish
    \/ \E u \in UnitIds, client_ok \in BOOLEAN : UnitStart(u, client_ok)
    \/ \E u \in UnitIds, nonce \in {None} \cup {Some(n) : n \in Nonces},
          clock_fault \in BOOLEAN : NonceReturn(u, nonce, clock_fault)
    \/ \E u \in UnitIds, sign_ok \in BOOLEAN, tls_fault \in BOOLEAN :
          SignReturn(u, sign_ok, tls_fault)
    \/ \E u \in UnitIds, response \in {None} \cup {Some(b) : b \in Texts} :
          SubmitReturn(u, response)
    \/ \E u \in UnitIds : TextReturn(u)

PipelineSpec == PipelineInit /\ [][PipelineNext]_vars

\* ------------------------------------------- the statistics of a sample
\* The end of a run of n units that all signed and were accepted, one
\* after the other: unit u signed for u ticks; join_next yielded them in
\* spawn order or in the reverse order.  Finish computes the statistics of
\* the sample {1..n}.
MaxSample == 100
Sample(n, reversed) == [i \in 1..n |-> IF reversed THEN n + 1 - i ELSE i]
StatsInit ==
    \E n \in 1..MaxSample, reversed \in BOOLEAN :
        /\ now = SumSeq(Sample(n, reversed))
        /\ main_pc = "drain"
        /\ num_market = n \div 2
        /\ num_limit = n - n \div 2
        /\ spawned = n
        /\ start_time = 0
        /\ tasks = [u \in 1..n |-> Taken(OkOutcome(u, 0, TRUE, None))]
        /\ results = [EmptyResults EXCEPT !.success_count = n,
                                          !.signing_time = SumSeq(Sample(n, reversed))]
        /\ signing_times = Sample(n, reversed)
        /\ report = NoReport
StatsNext == Finish
StatsSpec == StatsInit /\ [][StatsNext]_vars

\* ------------------------------------------ two units of a larger run
\* main has spawned all its num_market + num_limit tasks; two of them are
\* followed through their pipelines: any two of the first two market
\* units, the last market unit and the first two limit units.  The counts
\* are those of an empty loop, of a loop of two, and the first num_market
\* whose last index reaches the distance between the two bases.
MarketCounts == {0, 2, LimitBase - MarketBase + 1}
WideLimitCounts == {0, 2}
Tracked(M, L) == {1, 2, M, M + 1, M + 2} \cap 1..(M + L)
WideNonces == {7, 8}
PayloadInit ==
    \E M \in MarketCounts, L \in WideLimitCounts :
      \E a, b \in Tracked(M, L) :
        /\ a < b
        /\ now = 0
        /\ main_pc = "spawn"
        /\ num_market = M
        /\ num_limit = L
        /\ spawned = M + L
        /\ start_time = 0
        /\ tasks = [u \in {a, b} |-> [NoTask EXCEPT !.pc = "ready"]]
        /\ results = EmptyResults
        /\ signing_times = <<>>
        /\ report = NoReport
PayloadNext ==
    \/ Tick
    \/ \E u \in UnitIds, client_ok \in BOOLEAN : UnitStart(u, client_ok)
    \/ \E u \in UnitIds, nonce \in {None} \cup {Some(n) : n \in WideNonces},
          clock_fault \in BOOLEAN : NonceReturn(u, nonce, clock_fault)
    \/ \E u \in UnitIds, sign_ok \in BOOLEAN, tls_fault \in BOOLEAN :
          SignReturn(u, sign_ok, tls_fault)
    \/ \E u \in UnitIds, response \in {None} \cup {Some(b) : b \in Bodies} :
          SubmitReturn(u, response)
    \/ \E u \in UnitIds : TextReturn(u)
PayloadSpec == PayloadInit /\ [][PayloadNext]_vars

\* --------------------------------------------------------- scheduling
\* main is the root future of the runtime (block_on): it runs whenever it
\* can.  The runtime polls every spawned task that is ready, and a call a
\* task awaits (get_nonce, send, text) or makes (sign_transaction)
\* completes, with a result or with an error.
MainStep ==
    \/ \E valid \in BOOLEAN : Startup(valid)
    \/ SpawnMarket
    \/ SpawnLimit
    \/ BeginDrain
    \/ \E u \in UnitIds : DrainJoin(u)
    \/ Finish
TaskStep(u) ==
    \/ \E client_ok \in BOOLEAN : UnitStart(u, client_ok)
    \/ \E nonce \in {None} \cup {Some(n) : n \in Nonces}, clock_fault \in BOOLEAN :
          NonceReturn(u, nonce, clock_fault)
    \/ \E sign_ok \in BOOLEAN, tls_fault \in BOOLEAN : SignReturn(u, sign_ok, tls_fault)
    \/ \E response \in {None} \cup {Some(b) : b \in Bodies} : SubmitReturn(u, response)
    \/ TextReturn(u)
\* The runs of at most two units, under that scheduling.
FairInit == Init /\ num_market + num_limit <= 2
FairSpec ==
    /\ FairInit
    /\ [][Next]_vars
    /\ WF_vars(MainStep)
    /\ \A u \in Units : WF_vars(TaskStep(u))

\* ------------------------------------------- the drain of a failed run
\* The start of the drain loop of a run whose MaxErrors tasks have all
\* finished at once: the first `failed` of them ended in the same way, one
\* of the failures of the pipeline or a panic, and the others were
\* accepted.
MaxErrors == 11
FailedTasks ==
    { Finished(ClientCreationError), Finished(NonceErrorOutcome),
      Finished(SigningErrorOutcome(0)), Finished(TransportErrorOutcome(0, 0)),
      Finished(Classify(0, 0, Text(TRUE, JInt(400), JStr("invalid nonce")))),
      Panicked }
DrainInit ==
    \E failed \in 0..MaxErrors, t \in FailedTasks :
        /\ now = 0
        /\ main_pc = "drain"
        /\ num_market = MaxErrors \div 2
        /\ num_limit = MaxErrors - MaxErrors \div 2
        /\ spawned = MaxErrors
        /\ start_time = 0
        /\ tasks = [u \in 1..MaxErrors |->
                      IF u <= failed THEN t ELSE Finished(OkOutcome(0, 0, TRUE, None))]
        /\ results = EmptyResults
        /\ signing_times = <<>>
        /\ report = NoReport
DrainNext ==
    \/ \E u \in UnitIds : DrainJoin(u)
    \/ Finish
DrainSpec == DrainInit /\ [][DrainNext]_vars

\* =========================================================== the claims
Dispatched == num_market + num_limit
\* The drain loop has finished.
Drained == main_pc \in {"done", "panicked"}
JoinedAs(tag) == {u \in Joined : tasks[u].result.tag = tag}
Counted == results.success_count + results.error_count

\* C1: success_count + error_count is the number of units joined so far,
\* and once the drain loop has finished all M+L units have been joined, so
\* the sum is M+L.
C1_CountsMatchJoined ==
    /\ Counted = Cardinality(Joined)
    /\ Drained => Cardinality(Joined) = Dispatched /\ Counted = Dispatched
C1_Witness ==
    /\ Drained
    /\ Dispatched = 2
    /\ results.success_count = 1
    /\ results.error_count = 1

\* C2: once the drain loop has finished the report is printed: nothing
\* between the end of the loop and the end of the report aborts main.
C2_ReportAlwaysPrinted == Drained => main_pc = "done" /\ report.printed

\* C3: after the drain loop, with at least one outcome collected, api_time is
\* total_time minus the sum of the signing durations, and the sum of the
\* signing durations does not exceed total_time.
C3_ApiTimeNonNegative ==
    (Drained /\ signing_times # <<>>) =>
        /\ SumSeq(signing_times) <= results.total_time
        /\ results.api_time = results.total_time - SumSeq(signing_times)
        /\ results.api_time >= 0

\* C4 as stated: at the end of the run signing_times has one entry for
\* every dispatched unit, however the unit ended.
C4_OneEntryPerUnit == Drained => Len(signing_times) = Dispatched
\* C4 amended: signing_times has one entry for every joined unit whose
\* pipeline returned an outcome (success or failure), and none for a unit
\* that ended in a join error; at the end its length is M+L minus the
\* number of join errors.
C4_OneEntryPerOutcome ==
    /\ Len(signing_times) = Cardinality(JoinedAs("Ok"))
    /\ Drained => Len(signing_times) = Dispatched - Cardinality(JoinedAs("JoinErr"))
C4_Witness ==
    /\ Drained
    /\ JoinedAs("JoinErr") # {}
    /\ JoinedAs("Ok") # {}

\* C5: every join adds exactly one to success_count + error_count; the join
\* of a task that panicked adds one to error_count, appends one message,
\* leaves success_count and signing_times alone and stays in the drain
\* loop; and the loop is left only when every dispatched unit is joined.
C5_JoinErrorFolded ==
    [][ /\ \A u \in UnitIds :
              (tasks[u].pc # "joined" /\ tasks'[u].pc = "joined") =>
                  results'.success_count + results'.error_count = Counted + 1
        /\ \A u \in UnitIds :
              (tasks[u].pc = "panicked" /\ tasks'[u].pc = "joined") =>
                  /\ results'.error_count = results.error_count + 1
                  /\ Len(results'.errors) = Len(results.errors) + 1
                  /\ results'.success_count = results.success_count
                  /\ signing_times' = signing_times
                  /\ main_pc' = "drain"
        /\ (main_pc = "drain" /\ main_pc' # "drain") =>
              Cardinality(Joined) = Dispatched ]_vars
\* A join error has been folded and the loop has gone on to join another unit.
C5_Witness ==
    /\ JoinedAs("JoinErr") # {}
    /\ JoinedAs("Ok") # {}
    /\ results.error_count = 1
    /\ results.success_count = 1
    /\ Len(results.errors) = 1

\* The response text is a JSON object whose "code" is the integer 200.
CodeIs200(text) == text.wellformed /\ text.code.t = "int" /\ text.code.n = 200
\* Task u returns from the classification of its response in this step.
Classified(u) == tasks[u].pc = "text_wait" /\ tasks'[u].pc = "done"

\* C6: a unit that received a response succeeds exactly when the body's
\* integer "code" is 200, and an outcome with success = true has no error.
C6_SuccessIffCode200 ==
    [][ \A u \in UnitIds :
          /\ Classified(u) => (tasks'[u].result.success <=> CodeIs200(tasks[u].text))
          /\ tasks'[u].result.success => tasks'[u].result.error = None ]_vars
C6_Witness ==
    \E u \in UnitIds :
        /\ tasks[u].pc = "done"
        /\ tasks[u].result.success
        /\ tasks[u].result.error = None

\* C7 as stated: a response whose code is not 200 gives success = false and
\* a non-empty error string: the "message" member when the body has one,
\* "Unknown error" otherwise.
C7_NonEmptyMessage ==
    [][ \A u \in UnitIds :
          (Classified(u) /\ ~CodeIs200(tasks[u].text)) =>
              /\ ~tasks'[u].result.success
              /\ IsSome(tasks'[u].result.error)
              /\ Unwrap(tasks'[u].result.error) # ""
              /\ Unwrap(tasks'[u].result.error) =
                    IF tasks[u].text.wellformed /\ tasks[u].text.message # Null
                    THEN tasks[u].text.message.s ELSE "Unknown error" ]_vars
\* C7 amended: a response whose code is not 200 gives success = false and an
\* error that is present: the "message" member when it is a JSON string
\* (which may be empty), "Unknown error" when it is missing, is not a
\* string, or the body does not parse.
C7_MessageOrUnknown ==
    [][ \A u \in UnitIds :
          (Classified(u) /\ ~CodeIs200(tasks[u].text)) =>
              /\ ~tasks'[u].result.success
              /\ IsSome(tasks'[u].result.error)
              /\ Unwrap(tasks'[u].result.error) =
                    IF tasks[u].text.wellformed /\ tasks[u].text.message.t = "str"
                    THEN tasks[u].text.message.s ELSE "Unknown error" ]_vars
C7_Witness ==
    \E u \in UnitIds :
        /\ tasks[u].pc = "done"
        /\ ~tasks[u].result.success
        /\ tasks[u].result.error = Some("")

\* The multiset of the messages of a sequence.
ErrorBag(s) ==
    [m \in {s[i] : i \in 1..Len(s)} |-> Cardinality({i \in 1..Len(s) : s[i] = m})]
\* The aggregate after the drain loop has joined a and then b from here.
JoinBoth(a, b) ==
    [r |-> Fold(Fold(results, tasks[a].result), tasks[b].result),
     st |-> PushSigning(PushSigning(signing_times, tasks[a].result), tasks[b].result)]
\* What the claim compares: the counts, the total signing time, the
\* multiset of messages and the statistics of the sorted sample.
Summary(agg) ==
    [success_count |-> agg.r.success_count,
     error_count |-> agg.r.error_count,
     signing_time |-> agg.r.signing_time,
     errors |-> ErrorBag(agg.r.errors),
     stats |-> IF agg.st # <<>> THEN Statistics(sort(agg.st)) ELSE NoStatistics]

\* C8: the aggregate does not depend on the order of completion: whenever
\* two finished units wait to be joined, joining them in either order gives
\* the same counts, total signing time, multiset of error messages and
\* min/max/median/p95/p99.  (Any two arrival orders differ by exchanges of
\* neighbours.)
C8_OrderIndependent ==
    main_pc = "drain" =>
        \A a, b \in Completed :
            a # b => Summary(JoinBoth(a, b)) = Summary(JoinBoth(b, a))
\* Two finished units with different outcomes and different signing times
\* wait to be joined.
C8_Witness ==
    /\ main_pc = "drain"
    /\ \E a, b \in Completed :
          /\ tasks[a].result.tag = "Ok" /\ tasks[b].result.tag = "Ok"
          /\ tasks[a].result.success /\ ~tasks[b].result.success
          /\ tasks[a].result.sign > tasks[b].result.sign

\* C9: a step of unit i (a failure or a fault of it included) changes no
\* other unit; when unit i ends, main and the aggregate are left alone; and
\* the durations of the outcome unit i returns are its own timers' values.
C9_FailureIsolation ==
    [][ \A i \in UnitIds :
          tasks'[i] # tasks[i] =>
              /\ \A j \in UnitIds \ {i} : tasks'[j] = tasks[j]
              /\ tasks'[i].pc \in {"done", "panicked"} =>
                    /\ main_pc' = main_pc
                    /\ results' = results
                    /\ signing_times' = signing_times
              /\ tasks'[i].pc = "done" =>
                    /\ tasks'[i].result.sign \in {0, tasks[i].signing_time}
                    /\ tasks'[i].result.api \in
                          {0, tasks[i].nonce_time, tasks[i].api_time,
                           (now - tasks[i].api_start) + tasks[i].nonce_time} ]_vars
\* One unit has faulted and another unit has returned a success.
C9_Witness ==
    \E i, j \in UnitIds :
        /\ tasks[i].pc = "panicked"
        /\ tasks[j].pc = "done"
        /\ tasks[j].result.success

\* C10: while draining, results.signing_time (accumulated join by join) is
\* the sum of signing_times, and the recomputation after the loop leaves
\* it as it was.
C10_SigningTotalIsSum ==
    [][ /\ main_pc = "drain" => results.signing_time = SumSeq(signing_times)
        /\ (main_pc = "drain" /\ main_pc' # "drain") =>
              /\ results'.signing_time = results.signing_time
              /\ results'.signing_time = SumSeq(signing_times') ]_vars
\* The run has ended with two signing durations collected, one of them not 0.
C10_Witness ==
    /\ Drained
    /\ Len(signing_times) = 2
    /\ results.signing_time > 0

\* C11: the statistics are nearest-rank indices into the sorted sample: the
\* minimum is element 0, the maximum element n - 1, the median element
\* floor(n / 2), p95 element floor(n * 95 / 100), p99 element
\* floor(n * 99 / 100); every index is in 0..n-1; for the sample {1..100}
\* they are 1, 100, 51, 96 and 100.  (In the sorted sample {1..n} the
\* element at index i is i + 1.)
C11_NearestRank ==
    report.printed =>
        LET n == Len(signing_times)
        IN  /\ signing_times = [i \in 1..n |-> i]
            /\ report.stats = [min |-> 0 + 1, max |-> (n - 1) + 1,
                               median |-> n \div 2 + 1,
                               p95 |-> (n * 95) \div 100 + 1,
                               p99 |-> (n * 99) \div 100 + 1]
            /\ \A pct \in {95, 99} : PercentileIndex(n, pct) \in 0..(n - 1)
            /\ n \div 2 \in 0..(n - 1)
            /\ n = 100 =>
                 report.stats = [min |-> 1, max |-> 100, median |-> 51,
                                 p95 |-> 96, p99 |-> 100]
C11_Witness ==
    /\ report.printed
    /\ Len(signing_times) = 100
    /\ report.stats.p95 = 96
    /\ report.stats.p99 = 100

\* Task u returns in this step.
Returns(u) ==
    /\ tasks[u].pc \in {"ready", "nonce_wait", "signing", "submit_wait", "text_wait"}
    /\ tasks'[u].pc = "done"

HasPayload(u) == IsSome(tasks[u].tx_info)
Payload(u) == Unwrap(tasks[u].tx_info)

\* C13: the payload of a market unit has Type 1 and TimeInForce 0, that of
\* a limit unit Type 0 and TimeInForce 1; IsAsk is 1 for an even loop index
\* and 0 for an odd one, so the units of consecutive indices of one loop
\* are on opposite sides.
C13_PayloadByKindAndParity ==
    \A u \in UnitIds :
        HasPayload(u) =>
            /\ u <= num_market =>
                  /\ Payload(u).Type = 1
                  /\ Payload(u).TimeInForce = 0
                  /\ Payload(u).IsAsk = IF (u - 1) % 2 = 0 THEN 1 ELSE 0
            /\ u > num_market =>
                  /\ Payload(u).Type = 0
                  /\ Payload(u).TimeInForce = 1
                  /\ Payload(u).IsAsk = IF (u - 1 - num_market) % 2 = 0 THEN 1 ELSE 0
            /\ \A v \in UnitIds :
                  (HasPayload(v) /\ v = u + 1 /\ (v <= num_market <=> u <= num_market)) =>
                      Payload(u).IsAsk # Payload(v).IsAsk
C13_Witness ==
    \E u, v \in UnitIds :
        /\ u > num_market
        /\ v = u + 1
        /\ HasPayload(u) /\ HasPayload(v)
        /\ Payload(u).Type = 0 /\ Payload(u).TimeInForce = 1
        /\ Payload(u).IsAsk = 1 /\ Payload(v).IsAsk = 0

C15_EarlyExitAttribution ==
    [][ \A u \in UnitIds :
          /\ (tasks[u].pc = "ready" /\ tasks'[u].pc = "nonce_wait") =>
                tasks'[u].nonce_start = now
          /\ (tasks[u].pc = "nonce_wait" /\ tasks'[u].pc = "signing") =>
                tasks'[u].nonce_time = now - tasks[u].nonce_start
          /\ (tasks[u].pc \in {"ready", "nonce_wait"} /\ Returns(u)) =>
                /\ tasks'[u].result.sign = 0
                /\ tasks'[u].result.api = 0
                /\ ~tasks'[u].result.success
                /\ IsSome(tasks'[u].result.error)
          /\ (tasks[u].pc = "signing" /\ Returns(u)) =>
                /\ tasks'[u].result.sign = 0
                /\ tasks'[u].result.api = tasks[u].nonce_time
                /\ ~tasks'[u].result.success
                /\ IsSome(tasks'[u].result.error) ]_vars
C15_Witness ==
    \E u, v \in UnitIds :
        /\ u <= num_market /\ v > num_market
        /\ \A w \in {u, v} :
              /\ tasks[w].pc = "done"
              /\ tasks[w].result = OkOutcome(0, 1, FALSE, Some("Signing error: e"))

\* C16: for a unit that reaches the submission, whatever comes of it (code
\* 200, another code, no response), the signing duration of the outcome is
\* the time from the start of sign_transaction (after the client and the
\* nonce) to its return, and the api duration is the time from the start
\* of the POST to the completion of send() plus the nonce_time of that unit.
C16_SubmissionAttribution ==
    [][ \A u \in UnitIds :
          /\ (tasks[u].pc = "nonce_wait" /\ tasks'[u].pc = "signing") =>
                tasks'[u].sign_start = now
          /\ (tasks[u].pc = "signing" /\ tasks'[u].pc = "submit_wait") =>
                /\ tasks'[u].signing_time = now - tasks[u].sign_start
                /\ tasks'[u].api_start = now
                /\ tasks'[u].nonce_time = tasks[u].nonce_time
          /\ (tasks[u].pc = "submit_wait" /\ tasks'[u].pc = "text_wait") =>
                /\ tasks'[u].signing_time = tasks[u].signing_time
                /\ tasks'[u].api_time = (now - tasks[u].api_start) + tasks[u].nonce_time
          /\ (tasks[u].pc = "submit_wait" /\ Returns(u)) =>
                /\ tasks'[u].result.sign = tasks[u].signing_time
                /\ tasks'[u].result.api = (now - tasks[u].api_start) + tasks[u].nonce_time
          /\ (tasks[u].pc = "text_wait" /\ Returns(u)) =>
                /\ tasks'[u].result.sign = tasks[u].signing_time
                /\ tasks'[u].result.api = tasks[u].api_time ]_vars
C16_Witness ==
    \E u, v \in UnitIds :
        /\ tasks[u].pc = "done" /\ tasks[u].result.success
        /\ tasks[u].result.sign = 0 /\ tasks[u].result.api = 1
        /\ tasks[v].pc = "done"
        /\ tasks[v].result = OkOutcome(1, 0, FALSE, Some("error sending request"))

\* C17: the run cancels no unit and reports nothing early.  Until the drain
\* loop has ended no total time is recorded and no report is printed; when
\* it has ended every one of the num_market + num_limit spawned units has
\* been yielded by join_next and folded into results, and total_time is the
\* time from start_time to that moment; a spawned task is never dropped
\* from the JoinSet but through join_next; and, every unit terminating,
\* the drain loop eventually ends.
C17_DrainsEveryUnit ==
    /\ [](~Drained => (results.total_time = 0 /\ ~report.printed))
    /\ [](Drained =>
            /\ spawned = Dispatched
            /\ Cardinality(Joined) = Dispatched
            /\ Counted = Dispatched
            /\ results.total_time = now - start_time)
    /\ [][ \A u \in UnitIds :
              /\ tasks[u].pc # "unspawned" => tasks'[u].pc # "unspawned"
              /\ tasks'[u].pc = "joined" =>
                    \/ tasks[u].pc = "joined"
                    \/ tasks[u].pc \in {"done", "panicked"} /\ main_pc = "drain" ]_vars
    /\ (main_pc = "spawn") ~> Drained
C17_Witness ==
    /\ main_pc = "done"
    /\ report.printed
    /\ Dispatched = 2
    /\ Cardinality(Joined) = 2
    /\ results.total_time = 1

\* C18: the phases of a unit come in the order client, nonce, payload,
\* signing, POST, classification.  A task moves from one phase to the next
\* or ends; it holds no payload before its nonce has arrived, and the
\* payload carries that nonce; it is in send() only from a successful
\* signing, with the signature in the payload; and a task that has
\* returned or panicked takes no further step.
C18_PhaseOrder ==
    [][ \A u \in UnitIds :
          /\ tasks'[u].pc # tasks[u].pc =>
                \/ tasks[u].pc = "ready" /\ tasks'[u].pc \in {"nonce_wait", "done"}
                \/ tasks[u].pc = "nonce_wait" /\ tasks'[u].pc \in {"signing", "done", "panicked"}
                \/ tasks[u].pc = "signing" /\ tasks'[u].pc \in {"submit_wait", "done", "panicked"}
                \/ tasks[u].pc = "submit_wait" /\ tasks'[u].pc \in {"text_wait", "done"}
                \/ tasks[u].pc = "text_wait" /\ tasks'[u].pc = "done"
          /\ tasks[u].pc \in {"done", "panicked"} => tasks'[u] = tasks[u]
          /\ tasks'[u].pc \in {"unspawned", "ready", "nonce_wait"} => ~IsSome(tasks'[u].tx_info)
          /\ (tasks[u].pc = "nonce_wait" /\ tasks'[u].pc = "signing") =>
                /\ tasks'[u].nonce \in WideNonces
                /\ IsSome(tasks'[u].tx_info)
                /\ Unwrap(tasks'[u].tx_info).Nonce = tasks'[u].nonce
                /\ Unwrap(tasks'[u].tx_info).Sig = ""
          /\ tasks'[u].pc = "submit_wait" =>
                /\ tasks[u].pc \in {"signing", "submit_wait"}
                /\ tasks'[u].nonce = tasks[u].nonce
                /\ IsSome(tasks'[u].tx_info)
                /\ Unwrap(tasks'[u].tx_info).Nonce = tasks[u].nonce
                /\ Unwrap(tasks'[u].tx_info).Sig # "" ]_vars
C18_Witness ==
    \E u, v \in UnitIds :
        /\ u <= num_market
        /\ tasks[u].pc = "submit_wait"
        /\ tasks[u].nonce = 8
        /\ Payload(u).Nonce = 8
        /\ Payload(u).Sig = "base64"
        /\ tasks[v].pc = "done"
        /\ tasks[v].result = NonceErrorOutcome

\* join_next yields task u in this step.
Yielded(u) == tasks[u].pc \in {"done", "panicked"} /\ tasks'[u].pc = "joined"

\* C19: the error messages are all kept during the run and cut only in the
\* report.  In every state results.errors has error_count messages: the
\* iteration of the drain loop for a unit counted as an error appends one
\* message to it, the iteration for a success none.  The report shows the
\* first min(10, len) of them, and the "... and N more errors" line exactly
\* when len > 10, with N = len - 10.
C19_ErrorsKeptThenCut ==
    /\ [](Len(results.errors) = results.error_count)
    /\ [][ \A u \in UnitIds :
              Yielded(u) =>
                  IF tasks[u].result.tag = "Ok" /\ tasks[u].result.success
                  THEN /\ results'.errors = results.errors
                       /\ results'.error_count = results.error_count
                  ELSE /\ results'.error_count = results.error_count + 1
                       /\ Len(results'.errors) = Len(results.errors) + 1
                       /\ SubSeq(results'.errors, 1, Len(results.errors)) = results.errors ]_vars
    /\ [](report.printed =>
            LET len == Len(results.errors)
            IN  /\ Len(report.shown) = IF len < 10 THEN len ELSE 10
                /\ \A i \in 1..Len(report.shown) : report.shown[i] = results.errors[i]
                /\ len > 10 => report.more = Some(len - 10)
                /\ len <= 10 => report.more = None)
C19_Witness ==
    /\ report.printed
    /\ results.error_count = 11
    /\ Len(results.errors) = 11
    /\ Len(report.shown) = 10
    /\ report.more = Some(1)

\* The time since start_time.
Elapsed == now - start_time

\* C20: for every outcome of every unit, signing duration + api duration is
\* at most the total_time of the run, whatever the interleaving.  The
\* clock never goes back and start_time is taken once; the nonce, signing
\* and submission timers of a unit start one after the other, each after
\* the one before it has been read, and not before start_time, so the
\* durations a task has taken so far, and the outcome it returns, sum to at
\* most the time elapsed since start_time; total_time is the time
\* elapsed when the last task has been joined.
C20_OutcomeWithinTotal ==
    /\ [][ /\ now' >= now
           /\ main_pc # "startup" => start_time' = start_time ]_vars
    /\ [](\A u \in UnitIds :
            /\ tasks[u].pc = "nonce_wait" =>
                  start_time <= tasks[u].nonce_start /\ tasks[u].nonce_start <= now
            /\ tasks[u].pc = "signing" =>
                  /\ start_time + tasks[u].nonce_time <= tasks[u].sign_start
                  /\ tasks[u].sign_start <= now
            /\ tasks[u].pc = "submit_wait" =>
                  /\ start_time + tasks[u].nonce_time + tasks[u].signing_time
                        <= tasks[u].api_start
                  /\ tasks[u].api_start <= now
            /\ tasks[u].pc = "text_wait" =>
                  tasks[u].signing_time + tasks[u].api_time <= Elapsed
            /\ tasks[u].pc = "done" =>
                  tasks[u].result.sign + tasks[u].result.api <= Elapsed)
    /\ [](Drained =>
            /\ results.total_time = Elapsed
            /\ \A i \in 1..Len(signing_times) : signing_times[i] <= results.total_time)
C20_Witness ==
    \E u \in UnitIds :
        /\ tasks[u].pc = "done"
        /\ tasks[u].result.success
        /\ tasks[u].result.sign = 0
        /\ tasks[u].result.api = 1
        /\ Elapsed = 1

====
